---------------------------- MODULE Spec2Model ----------------------------
(***************************************************************************)
(* A model of the UCI command interpreter of cordova-plugin-stockfish      *)
(* (src/src/ios/stockfishcli.cpp): the dispatcher command(), the handlers  *)
(* position(), setoption() and go(), the process-wide Position `pos` and   *)
(* the state history handle `SetupStates`.  The engine behind the          *)
(* interpreter (Position, UCI::to_move, the option registry, the thread    *)
(* pool and the search signals) is not part of the file; it is modelled    *)
(* from the specification, on a fragment of the chess board that is large  *)
(* enough to make move legality depend on the position.                    *)
(***************************************************************************)
EXTENDS Integers, Sequences, FiniteSets, TLC

VARIABLES
  pc,            \* "idle": command() is not running; "called": command(cmd) was entered;
                 \* "ponderhit", "ucinewgame", "stopping", "writing": between two
                 \* statements of a handler
  cmd,           \* the line given to command(): a sequence of lexemes (words and blanks)
  ncmds,         \* number of calls of command() so far
  out,           \* output blocks written by the last call of command()
  pos,           \* stockfishcli::pos
  SetupStates,   \* stockfishcli::SetupStates: a handle (0 is the null handle)
  heap,          \* the std::stack<StateInfo> objects alive, by identity
  Options,       \* the option registry: name -> current value
  Signals,       \* Search::Signals: [stop, stopOnPonderhit]
  Limits,        \* Search::Limits, the limits of the current search
  worker,        \* the main worker: [searching, rootPos, states, notified, starts]
  engine,        \* search caches and Time.availableNodes
  iolock,        \* the owner of the mutex of sync_cout: "free", "control" or "worker"
  chan,          \* the output channel behind the last completed block: its pieces
  pending,       \* the operands that the control thread has still to write
  wpending       \* the operands that the worker has still to write

\* The state of the output channel and of its two writers.
io == <<iolock, chan, pending, wpending>>

vars == <<pc, cmd, ncmds, out, pos, SetupStates, heap, Options, Signals, Limits,
          worker, engine, iolock, chan, pending, wpending>>

-----------------------------------------------------------------------------
(* Bounds *)

\* command() is called at most MaxCmds times in a behaviour.
MaxCmds == 3

\* command() is called at most MaxVariantCmds times in a behaviour of
\* VariantSpec, whose lines are few.
MaxVariantCmds == 6

-----------------------------------------------------------------------------
(* Text: lines, lexemes, streams *)

\* The characters that std::isspace takes for blanks in the "C" locale, the
\* ones that is >> skips: space, tab, line feed, carriage return, form feed
\* and vertical tab.
WhiteSpace == {" ", "\t", "\n", "\r", "\f", ""}

\* A line is a sequence of lexemes: a word (no blank inside) or one blank
\* character.
Blank(x) == x \in WhiteSpace

RECURSIVE WordLength(_)
\* The number of characters at the front of the text s that are no blanks.
WordLength(s) == IF s = "" \/ Blank(Head(s)) THEN 0 ELSE 1 + WordLength(Tail(s))

RECURSIVE Lex(_)
\* The lexemes of a text: every blank character by itself, and every run of
\* other characters between two blanks (or the ends of the text) as a word.
Lex(s) ==
  IF s = "" THEN <<>>
  ELSE IF Blank(Head(s)) THEN <<Head(s)>> \o Lex(Tail(s))
  ELSE <<SubSeq(s, 1, WordLength(s))>> \o Lex(SubSeq(s, WordLength(s) + 1, Len(s)))

RECURSIVE Concat(_)
\* The characters of a line, as one string.
Concat(s) == IF s = <<>> THEN "" ELSE Head(s) \o Concat(Tail(s))

RECURSIVE Line(_)
\* The line made of the given words separated by single blanks.
Line(words) ==
  IF words = <<>> THEN <<>>
  ELSE IF Len(words) = 1 THEN <<Head(words)>>
  ELSE <<Head(words), " ">> \o Line(Tail(words))

RECURSIVE SkipWs(_)
\* std::ws: drop the leading blanks.
SkipWs(s) == IF s # <<>> /\ Blank(Head(s)) THEN SkipWs(Tail(s)) ELSE s

\* std::istringstream is(cmd)
StreamOf(line) == [rest |-> line, fail |-> FALSE]

\* is >> token for a std::string: skips blanks and reads one word; at the end
\* of the input (or on a failed stream) the stream fails and token keeps its
\* old value.
Extract(is, token) ==
  LET r == SkipWs(is.rest) IN
  IF is.fail THEN [is |-> is, token |-> token, ok |-> FALSE]
  ELSE IF r = <<>> THEN [is |-> [rest |-> r, fail |-> TRUE], token |-> token, ok |-> FALSE]
  ELSE [is |-> [rest |-> Tail(r), fail |-> FALSE], token |-> Head(r), ok |-> TRUE]

\* std::numeric_limits<int>::max()
INT_MAX == 2147483647

\* The decimal digits, in the order of their values.
DigitChars == <<"0", "1", "2", "3", "4", "5", "6", "7", "8", "9">>

IsDigit(c) == \E d \in 1..10 : DigitChars[d] = c

DigitOf(c) == (CHOOSE d \in 1..10 : DigitChars[d] = c) - 1

RECURSIVE DigitCount(_)
\* The number of digits at the front of the characters s.
DigitCount(s) == IF s = "" \/ ~IsDigit(Head(s)) THEN 0 ELSE 1 + DigitCount(Tail(s))

RECURSIVE Accumulate(_, _, _)
\* The digits ds added to the number -acc, kept as a negative number so that
\* the least int has room: over is set when the number leaves the range of
\* int (below -INT_MAX - 1 with a minus sign, above INT_MAX without).
Accumulate(ds, acc, neg) ==
  IF ds = "" THEN [acc |-> acc, over |-> FALSE]
  ELSE LET d == DigitOf(Head(ds))
           q == INT_MAX \div 10
           last == (INT_MAX % 10) + (IF neg THEN 1 ELSE 0)
       IN IF acc < -q \/ (acc = -q /\ d > last)
          THEN [acc |-> 0, over |-> TRUE]
          ELSE Accumulate(Tail(ds), acc * 10 - d, neg)

\* num_get on the characters of the word w: an optional sign and the digits
\* behind it are read, whatever follows them stays in the stream.  Without
\* a digit the read fails with 0, the sign, if there is one, consumed; a
\* number out of the range of int fails with the nearest int.
ScanInt(w) ==
  LET signed == Head(w) = "+" \/ Head(w) = "-"
      neg == Head(w) = "-"
      body == IF signed THEN Tail(w) ELSE w
      n == DigitCount(body)
      a == Accumulate(SubSeq(body, 1, n), 0, neg)
  IN IF n = 0 THEN [ok |-> FALSE, val |-> 0, rest |-> body]
     ELSE IF a.over
     THEN [ok |-> FALSE, val |-> IF neg THEN -INT_MAX - 1 ELSE INT_MAX,
           rest |-> SubSeq(body, n + 1, Len(body))]
     ELSE [ok |-> TRUE, val |-> IF neg THEN a.acc ELSE -a.acc,
           rest |-> SubSeq(body, n + 1, Len(body))]

\* The int that is >> n stores when it reads the word w.
IntOf(w) == ScanInt(w).val

\* The word w is a number from its first character to its last.
IsInt(w) == ScanInt(w).ok /\ ScanInt(w).rest = ""

\* is >> n for an int: at the end of the input n keeps its value; a word that
\* begins with a number gives that number and leaves the rest of the word
\* in the stream as the next word; a word that does not stores 0 and fails
\* the stream, leaving the word unread but for a sign at its front; a
\* number out of range stores the nearest int and fails the stream.
ExtractInt(is, n) ==
  LET r == SkipWs(is.rest) IN
  IF is.fail THEN [is |-> is, val |-> n]
  ELSE IF r = <<>> THEN [is |-> [rest |-> r, fail |-> TRUE], val |-> n]
  ELSE LET sc == ScanInt(Head(r))
           left == IF sc.rest = "" THEN Tail(r) ELSE <<sc.rest>> \o Tail(r)
       IN IF sc.ok THEN [is |-> [rest |-> left, fail |-> FALSE], val |-> sc.val]
          ELSE [is |-> [rest |-> left, fail |-> TRUE], val |-> sc.val]

\* Every word of a line, in order: what repeated extraction yields.
Tokens(line) == SelectSeq(line, LAMBDA x : ~Blank(x))

-----------------------------------------------------------------------------
(* The Position Model and the Move Parser (external collaborators) *)

\* FEN string of the initial position, normal chess
StartFEN == "rnbqkbnr/pppppppp/8/8/8/8/PPPPPPPP/RNBQKBNR w KQkq - 0 1"

\* FEN string of the initial position, horde variant
StartFENHorde == "rnbqkbnr/pppppppp/8/1PP2PP1/PPPPPPPP/PPPPPPPP/PPPPPPPP/PPPPPPPP w kq - 0 1"

\* The position after 1. e4, as the words of its FEN.
FenAfterE4 == <<"rnbqkbnr/pppppppp/8/8/4P3/8/PPPP1PPP/RNBQKBNR", "b", "KQkq", "e3", "0", "1">>

\* The words of StartFEN.
FenStart == <<"rnbqkbnr/pppppppp/8/8/8/8/PPPPPPPP/RNBQKBNR", "w", "KQkq", "-", "0", "1">>

\* The squares of the board that the model follows: the d and e files from
\* rank 2 to rank 7 and the squares of the king's knights.
Squares ==
  {"d2", "d3", "d4", "d5", "d6", "d7", "e2", "e3", "e4", "e5", "e6", "e7",
   "g1", "f3", "f6", "g8"}

\* The same squares in the order a board is printed.
SquareOrder ==
  <<"g8", "d7", "e7", "d6", "e6", "f6", "d5", "e5", "d4", "e4", "d3", "e3", "f3",
    "d2", "e2", "g1">>

WHITE == "w"
BLACK == "b"
Empty == "."

\* Piece placement of a FEN on the followed squares.
Placement(field) ==
  CASE field = "rnbqkbnr/pppppppp/8/8/8/8/PPPPPPPP/RNBQKBNR" ->
         [s \in Squares |->
            CASE s \in {"d2", "e2"} -> "P" [] s = "g1" -> "N"
              [] s \in {"d7", "e7"} -> "p" [] s = "g8" -> "n" [] OTHER -> Empty]
    [] field = "rnbqkbnr/pppppppp/8/8/4P3/8/PPPP1PPP/RNBQKBNR" ->
         [s \in Squares |->
            CASE s \in {"d2", "e4"} -> "P" [] s = "g1" -> "N"
              [] s \in {"d7", "e7"} -> "p" [] s = "g8" -> "n" [] OTHER -> Empty]
    [] field = "rnbqkbnr/pppppppp/8/1PP2PP1/PPPPPPPP/PPPPPPPP/PPPPPPPP/PPPPPPPP" ->
         [s \in Squares |->
            CASE s \in {"d2", "d3", "d4", "e2", "e3", "e4", "f3", "g1"} -> "P"
              [] s \in {"d7", "e7"} -> "p" [] s = "g8" -> "n" [] OTHER -> Empty]
    [] OTHER -> [s \in Squares |-> Empty]

\* The fields of a FEN string as Position::set reads them through a stream:
\* blanks separate the fields, a trailing blank changes nothing.
FenFields(fen) ==
  CASE fen \in {StartFEN, Concat(Line(FenStart)) \o " "} -> FenStart
    [] fen \in {Concat(Line(FenAfterE4)), Concat(Line(FenAfterE4)) \o " "} -> FenAfterE4
    [] fen \in {StartFENHorde, StartFENHorde \o " "} ->
         <<"rnbqkbnr/pppppppp/8/1PP2PP1/PPPPPPPP/PPPPPPPP/PPPPPPPP/PPPPPPPP", "w", "kq", "-", "0", "1">>
    [] OTHER -> <<"", "w", "-", "-", "0", "1">>

\* Position::set(fen, variant, thread): an empty FEN leaves an empty board
\* with white to move.
PosSet(fen, variant) ==
  LET f == FenFields(fen) IN
  [board |-> Placement(f[1]), stm |-> f[2], variant |-> variant]

\* Position pos; the default-constructed position of static storage.
EmptyPosition == [board |-> [s \in Squares |-> Empty], stm |-> WHITE, variant |-> {}]

MOVE_NONE == "(none)"

\* The moves of the model in coordinate notation: origin, destination, the
\* square passed over by a double pawn push, and the piece that makes it.
MoveTable ==
  [e2e4 |-> [from |-> "e2", to |-> "e4", via |-> "e3", piece |-> "P"],
   d2d4 |-> [from |-> "d2", to |-> "d4", via |-> "d3", piece |-> "P"],
   g1f3 |-> [from |-> "g1", to |-> "f3", via |-> "",   piece |-> "N"],
   f3g1 |-> [from |-> "f3", to |-> "g1", via |-> "",   piece |-> "N"],
   e7e5 |-> [from |-> "e7", to |-> "e5", via |-> "e6", piece |-> "p"],
   d7d5 |-> [from |-> "d7", to |-> "d5", via |-> "d6", piece |-> "p"],
   g8f6 |-> [from |-> "g8", to |-> "f6", via |-> "",   piece |-> "n"],
   f6g8 |-> [from |-> "f6", to |-> "g8", via |-> "",   piece |-> "n"]]

ColorOf(piece) == IF piece \in {"P", "N"} THEN WHITE ELSE BLACK

\* Whether the word names a legal move of the position: the side to move owns
\* the piece on the origin, and the squares it needs are free.
Legal(p, w) ==
  /\ w \in DOMAIN MoveTable
  /\ LET m == MoveTable[w] IN
       /\ p.board[m.from] = m.piece
       /\ ColorOf(m.piece) = p.stm
       /\ p.board[m.to] = Empty
       /\ m.via # "" => p.board[m.via] = Empty

\* UCI::to_move(pos, str): the legal move written str, or MOVE_NONE.
to_move(p, w) == IF Legal(p, w) THEN w ELSE MOVE_NONE

\* Position::do_move(m, newSt, givesCheck) on the board.
do_move(p, m) ==
  LET mv == MoveTable[m] IN
  [board   |-> [s \in Squares |->
                  IF s = mv.from THEN Empty ELSE IF s = mv.to THEN mv.piece ELSE p.board[s]],
   stm     |-> IF p.stm = WHITE THEN BLACK ELSE WHITE,
   variant |-> p.variant]

\* The StateInfo that do_move fills in for the position it reaches.
StateInfoOf(p) == [board |-> p.board, stm |-> p.stm]

MirrorSquare(s) ==
  CASE s = "d2" -> "d7" [] s = "d3" -> "d6" [] s = "d4" -> "d5" [] s = "d5" -> "d4"
    [] s = "d6" -> "d3" [] s = "d7" -> "d2" [] s = "e2" -> "e7" [] s = "e3" -> "e6"
    [] s = "e4" -> "e5" [] s = "e5" -> "e4" [] s = "e6" -> "e3" [] s = "e7" -> "e2"
    [] s = "g1" -> "g8" [] s = "g8" -> "g1" [] s = "f3" -> "f6" [] s = "f6" -> "f3"

SwapColor(piece) ==
  CASE piece = "P" -> "p" [] piece = "p" -> "P" [] piece = "N" -> "n"
    [] piece = "n" -> "N" [] OTHER -> piece

\* Position::flip(): the board mirrored, colours and side to move swapped.
PosFlip(p) ==
  [board   |-> [s \in Squares |-> SwapColor(p.board[MirrorSquare(s)])],
   stm     |-> IF p.stm = WHITE THEN BLACK ELSE WHITE,
   variant |-> p.variant]

\* operator<<(ostream, Position): the side to move and the board.
Render(p) == <<p.stm>> \o [i \in 1..Len(SquareOrder) |-> p.board[SquareOrder[i]]]

-----------------------------------------------------------------------------
(* The Option Registry (external collaborator) *)

\* The registered options and their default values.
DefaultOptions ==
  [n \in {"Hash", "Skill Level", "UCI_Chess960", "UCI_Atomic", "UCI_Horde", "UCI_House",
          "UCI_KingOfTheHill", "UCI_Race", "UCI_3Check"} |->
     CASE n = "Hash" -> "16" [] n = "Skill Level" -> "20" [] OTHER -> "false"]

\* The order in which the registry prints its options.
OptionOrder ==
  <<"Hash", "Skill Level", "UCI_Chess960", "UCI_Atomic", "UCI_Horde", "UCI_House",
    "UCI_KingOfTheHill", "UCI_Race", "UCI_3Check">>

\* Options.count(name)
OptionsCount(opts, name) == IF name \in DOMAIN opts THEN 1 ELSE 0

\* Options[name] = value
OptionsAssign(opts, name, value) == [opts EXCEPT ![name] = value]

\* Options[name] read as a boolean
OptionsBool(opts, name) == opts[name] = "true"

\* operator<<(ostream, Options): one line per option.
OptionsDump(opts) ==
  [i \in 1..Len(OptionOrder) |->
     "option name " \o OptionOrder[i] \o " value " \o opts[OptionOrder[i]]]

-----------------------------------------------------------------------------
(* position() *)

\* The variant options read by position(), with the flag each one sets, in
\* the order of the source.
VariantTable ==
  <<[option |-> "UCI_Chess960",      flag |-> "CHESS960_VARIANT"],
    [option |-> "UCI_Atomic",        flag |-> "ATOMIC_VARIANT"],
    [option |-> "UCI_Horde",         flag |-> "HORDE_VARIANT"],
    [option |-> "UCI_House",         flag |-> "HOUSE_VARIANT"],
    [option |-> "UCI_KingOfTheHill", flag |-> "KOTH_VARIANT"],
    [option |-> "UCI_Race",          flag |-> "RACE_VARIANT"],
    [option |-> "UCI_3Check",        flag |-> "THREECHECK_VARIANT"]>>

\* A position() that adds the flags of the true options to the flags that
\* the Position has.
VariantOf_KeepsFlags(opts) ==
  pos.variant \cup
    {VariantTable[i].flag : i \in {j \in 1..Len(VariantTable) : OptionsBool(opts, VariantTable[j].option)}}

\* int variant = STANDARD_VARIANT; if (Options[...]) variant |= ...;
\* the bit set is modelled as the set of its flags.
VariantOf(opts) ==
  {VariantTable[i].flag : i \in {j \in 1..Len(VariantTable) : OptionsBool(opts, VariantTable[j].option)}}

\* A position() whose last branch does not return.
Recognised_NoReturn(token) == TRUE

\* The branch of position() taken for the first word after "position".
Recognised(token) == token = "startpos" \/ token = "fen"

\* fen = (variant & HORDE_VARIANT) ? StartFENHorde : StartFEN;
StartposFen(variant) == IF "HORDE_VARIANT" \in variant THEN StartFENHorde ELSE StartFEN

\* is >> token; // Consume "moves" token if any
SkipMoves(is, token) == Extract(is, token).is

RECURSIVE ReadFen(_, _)
\* while (is >> token && token != "moves") fen += token + " ";
ReadFen(is, fen) ==
  LET e == Extract(is, "") IN
  IF e.ok /\ e.token # "moves" THEN ReadFen(e.is, fen \o e.token \o " ")
  ELSE [is |-> e.is, fen |-> fen]

\* The condition of the move loop: the next word is read and names a legal move.
ReplayGoesOn(p, e) == e.ok /\ to_move(p, e.token) # MOVE_NONE

RECURSIVE Replay_SkipIllegal(_, _, _)
\* A move loop that steps over a word that is no legal move and goes on.
Replay_SkipIllegal(p, stack, is) ==
  LET e == Extract(is, "") IN
  IF ~e.ok THEN [pos |-> p, stack |-> stack]
  ELSE IF to_move(p, e.token) = MOVE_NONE THEN Replay_SkipIllegal(p, stack, e.is)
  ELSE LET q == do_move(p, to_move(p, e.token))
       IN Replay_SkipIllegal(q, Append(stack, StateInfoOf(q)), e.is)

RECURSIVE Replay(_, _, _)
\* while (is >> token && (m = UCI::to_move(pos, token)) != MOVE_NONE)
\*   { SetupStates->push(StateInfo()); pos.do_move(m, SetupStates->top(), ...); }
Replay(p, stack, is) ==
  LET e == Extract(is, "") IN
  IF ReplayGoesOn(p, e)
  THEN LET q == do_move(p, to_move(p, e.token)) IN Replay(q, Append(stack, StateInfoOf(q)), e.is)
  ELSE [pos |-> p, stack |-> stack]

\* position(pos, is): the position and the contents of the new stack, or
\* recognised = FALSE for the early return.
position(p, opts, is) ==
  LET variant == VariantOf(opts)
      first   == Extract(is, "")
      token   == first.token
      start   == IF token = "startpos"
                 THEN [is |-> SkipMoves(first.is, token), fen |-> StartposFen(variant)]
                 ELSE ReadFen(first.is, "")
      replay  == Replay(PosSet(start.fen, variant), <<>>, start.is)
  IN IF Recognised(token)
     THEN [recognised |-> TRUE, pos |-> replay.pos, stack |-> replay.stack]
     ELSE [recognised |-> FALSE, pos |-> p, stack |-> <<>>]

-----------------------------------------------------------------------------
(* The state history stacks: objects with shared ownership *)

NullHandle == 0

\* The identity of a newly allocated object: one that no live object has.
NewHandle(h) ==
  CHOOSE n \in 1..(Cardinality(DOMAIN h) + 1) :
    n \notin DOMAIN h /\ \A m \in 1..(n - 1) : m \in DOMAIN h

\* The objects that stay alive when `owners` are the handles still held.
Collect(h, owners) == [i \in (DOMAIN h) \cap owners |-> h[i]]

\* A position() that empties the stack it has and fills it again, and
\* allocates one only when it has none.
FreshHandle_Reuse(h, cur) == IF cur # NullHandle THEN cur ELSE NewHandle(h)

\* SetupStates = Search::StateStackPtr(new std::stack<StateInfo>): the handle
\* that position() installs; `cur` is the handle replaced.
FreshHandle(h, cur) == NewHandle(h)

\* The heap after position() installed `stack` under `new` and dropped its
\* old handle; `held` is the worker's handle.
InstallStack(h, new, held, stack) ==
  Collect([i \in (DOMAIN h) \cup {new} |-> IF i = new THEN stack ELSE h[i]], {new, held})

-----------------------------------------------------------------------------
(* setoption() *)

\* A join that puts no blank between the words.
Join_NoBlank(acc, token) == acc \o token

\* name += string(" ", name.empty() ? 0 : 1) + token
Join(acc, token) == acc \o (IF acc = "" THEN "" ELSE " ") \o token

\* The condition of the name loop: a word is read and it is not "value".
NameGoesOn(e) == e.ok /\ e.token # "value"

RECURSIVE ReadName(_, _)
\* while (is >> token && token != "value") name += ...;
ReadName(is, name) ==
  LET e == Extract(is, "") IN
  IF NameGoesOn(e) THEN ReadName(e.is, Join(name, e.token))
  ELSE [is |-> e.is, name |-> name]

RECURSIVE ReadValue(_, _)
\* while (is >> token) value += ...;
ReadValue(is, value) ==
  LET e == Extract(is, "") IN
  IF e.ok THEN ReadValue(e.is, Join(value, e.token)) ELSE value

\* A setoption() that assigns without looking the name up: the registry
\* makes the entry that is missing.
ApplyOption_NoCheck(opts, name, value) ==
  [Options |-> [n \in (DOMAIN opts) \cup {name} |-> IF n = name THEN value ELSE opts[n]],
   out |-> <<>>]

\* if (Options.count(name)) Options[name] = value;
\* else sync_cout << "No such option: " << name << sync_endl;
ApplyOption(opts, name, value) ==
  IF OptionsCount(opts, name) # 0
  THEN [Options |-> OptionsAssign(opts, name, value), out |-> <<>>]
  ELSE [Options |-> opts, out |-> << <<"No such option: " \o name>> >>]

\* setoption(is): the registry and the output blocks it leaves.
setoption(opts, is) ==
  LET afterName == Extract(is, "").is     \* Consume "name" token
      n == ReadName(afterName, "")
      v == ReadValue(n.is, "")
  IN ApplyOption(opts, n.name, v)

-----------------------------------------------------------------------------
(* go() *)

\* Search::LimitsType(): every field zero, no search moves.
ZeroLimits ==
  [time |-> [w |-> 0, b |-> 0], inc |-> [w |-> 0, b |-> 0], movestogo |-> 0,
   depth |-> 0, nodes |-> 0, movetime |-> 0, mate |-> 0, infinite |-> 0, ponder |-> 0,
   searchmoves |-> <<>>, startTime |-> 0]

\* now(), on the clock of the handler: the number of words of the command
\* line that have been read when it is called.
Now(is) == Len(Tokens(cmd)) - Len(Tokens(is.rest))

RECURSIVE SearchMoves_UntilKeyword(_, _, _)
\* A search-move loop that ends before the first word that is no move and
\* leaves that word to the loop of go().
SearchMoves_UntilKeyword(is, moves, p) ==
  LET e == Extract(is, "") IN
  IF e.ok /\ to_move(p, e.token) # MOVE_NONE
  THEN SearchMoves_UntilKeyword(e.is, Append(moves, to_move(p, e.token)), p)
  ELSE [is |-> is, moves |-> moves]

RECURSIVE SearchMoves(_, _, _)
\* while (is >> token) limits.searchmoves.push_back(UCI::to_move(pos, token));
SearchMoves(is, moves, p) ==
  LET e == Extract(is, "") IN
  IF e.ok THEN SearchMoves(e.is, Append(moves, to_move(p, e.token)), p)
  ELSE [is |-> e.is, moves |-> moves]

\* One word of the go command applied to the limits: the stream and the
\* limits after it.
GoToken(is, token, limits, p) ==
  LET n(old) == ExtractInt(is, old) IN
  CASE token = "searchmoves" ->
         LET r == SearchMoves(is, limits.searchmoves, p)
         IN [is |-> r.is, limits |-> [limits EXCEPT !.searchmoves = r.moves]]
    [] token = "wtime" ->
         [is |-> n(limits.time.w).is, limits |-> [limits EXCEPT !.time.w = n(@).val]]
    [] token = "btime" ->
         [is |-> n(limits.time.b).is, limits |-> [limits EXCEPT !.time.b = n(@).val]]
    [] token = "winc" ->
         [is |-> n(limits.inc.w).is, limits |-> [limits EXCEPT !.inc.w = n(@).val]]
    [] token = "binc" ->
         [is |-> n(limits.inc.b).is, limits |-> [limits EXCEPT !.inc.b = n(@).val]]
    [] token = "movestogo" ->
         [is |-> n(limits.movestogo).is, limits |-> [limits EXCEPT !.movestogo = n(@).val]]
    [] token = "depth" ->
         [is |-> n(limits.depth).is, limits |-> [limits EXCEPT !.depth = n(@).val]]
    [] token = "nodes" ->
         [is |-> n(limits.nodes).is, limits |-> [limits EXCEPT !.nodes = n(@).val]]
    [] token = "movetime" ->
         [is |-> n(limits.movetime).is, limits |-> [limits EXCEPT !.movetime = n(@).val]]
    [] token = "mate" ->
         [is |-> n(limits.mate).is, limits |-> [limits EXCEPT !.mate = n(@).val]]
    [] token = "infinite" -> [is |-> is, limits |-> [limits EXCEPT !.infinite = 1]]
    [] token = "ponder" -> [is |-> is, limits |-> [limits EXCEPT !.ponder = 1]]
    [] OTHER -> [is |-> is, limits |-> limits]

RECURSIVE GoLoop(_, _, _)
\* while (is >> token) if (token == "searchmoves") ... else if ...
GoLoop(is, limits, p) ==
  LET e == Extract(is, "") IN
  IF e.ok
  THEN LET r == GoToken(e.is, e.token, limits, p) IN GoLoop(r.is, r.limits, p)
  ELSE limits

\* A go() that fills in the limits of the search before instead of a
\* fresh Search::LimitsType.
go_StaleLimits(p, is) == GoLoop(is, [Limits EXCEPT !.startTime = Now(is)], p)

\* go(pos, is): the limits handed to Threads.start_thinking.
go(p, is) == GoLoop(is, [ZeroLimits EXCEPT !.startTime = Now(is)], p)

-----------------------------------------------------------------------------
(* The Worker Dispatcher (external collaborator) *)

\* Threads.start_thinking(pos, limits, states): the main worker takes a copy
\* of the position and shares the state history with the caller.  The field
\* starts counts the calls.
start_thinking(w, p, states) ==
  [w EXCEPT !.searching = TRUE, !.rootPos = p, !.states = states, !.starts = @ + 1]

\* Search::Signals after Threads.start_thinking.  The specification does not
\* say whether the call prepares the signals for the search it starts, so
\* both outcomes are kept: the signals as they were, or both of them down.
start_thinking_signals(s) == {s, [stop |-> FALSE, stopOnPonderhit |-> FALSE]}

\* Threads.main()->start_searching(true): notify the worker, which may sleep.
start_searching(w) == [w EXCEPT !.notified = TRUE]

\* Search::clear() and Time.availableNodes = 0
NewGame == [cachesClear |-> TRUE, availableNodes |-> 0]

\* engine_info(true)
EngineInfo == "Stockfish"

-----------------------------------------------------------------------------
(* command() *)

\* The lines given to command(): words separated by single spaces, and
\* lines with tabs, line ends and runs of blanks between and around their
\* words.
Lines ==
  { Line(<<"position">>),
    Line(<<"position", "moves", "e2e4">>),
    Line(<<"position", "startpos">>),
    Lex("position\tstartpos moves\te2e4  e7e5\r"),
    Line(<<"position", "startpos", "moves", "e2e4", "e7e5", "x", "g1f3">>),
    Line(<<"position", "startpos", "moves", "g1f3", "g8f6", "f3g1", "f6g8">>),
    Line(<<"position", "startpos", "e2e4", "g1f3">>),
    Line(<<"position", "fen">> \o FenAfterE4 \o <<"moves", "e7e5", "e2e4", "g1f3">>),
    Line(<<"position", "fen">> \o FenStart),
    Line(<<"go">>),
    Lex("go\tinfinite"),
    Line(<<"go", "ponder", "movetime", "1000">>),
    Line(<<"go", "wtime", "60000", "btime", "60000", "winc", "500", "binc", "700",
           "movestogo", "20">>),
    Line(<<"go", "depth", "x", "wtime", "1000">>),
    Line(<<"go", "depth", "5x", "wtime", "1000">>),
    Line(<<"go", "mate", "-5", "nodes", "007">>),
    Line(<<"go", "foo", "infinite">>),
    Line(<<"go", "depth", "5", "searchmoves", "e2e4", "d2d4", "depth", "10">>),
    Line(<<"stop">>),
    Lex("quit\n"),
    Lex("ponderhit\t"),
    Line(<<"isready">>),
    Line(<<"uci">>),
    Line(<<"ucinewgame">>),
    Line(<<"flip">>),
    Line(<<"d">>),
    Line(<<"eval">>),
    Line(<<"setoption", "name", "Hash", "value", "128">>),
    Line(<<"setoption", "name", "Skill", "Level", "value">>),
    Lex("setoption name Skill\tLevel value 1\t0"),
    Lex("setoption\tname\tHash"),
    Line(<<"setoption", "name", "Skill", "value", "5">>),
    Line(<<"setoption", "name", "Foo">>),
    Line(<<"setoption", "name", "UCI_Horde", "value", "true">>),
    Line(<<"setoption", "name", "UCI_Chess960", "value", "true">>),
    Line(<<"setoption", "name", "UCI_Chess960", "value", "false">>),
    <<>>,
    Lex(" \t"),
    Lex("\tisready\tx\r\n"),
    Line(<<"Stop">>),
    Lex("stopp\tnow") }

\* is >> std::skipws >> token on the cleared token: the first word, and the
\* stream behind it.
FirstWord == Extract(StreamOf(cmd), "")

token == FirstWord.token

\* The end of command(): the blocks written and the return to the caller.
Return(blocks) ==
  /\ pc' = "idle"
  /\ out' = blocks
  /\ UNCHANGED <<cmd, ncmds>>
  /\ UNCHANGED io

\* The caller enters command(line), as one of at most max calls.
Enter(line, max) ==
  /\ pc = "idle"
  /\ ncmds < max
  /\ pc' = "called"
  /\ cmd' = line
  /\ ncmds' = ncmds + 1
  /\ out' = <<>>
  /\ UNCHANGED <<pos, SetupStates, heap, Options, Signals, Limits, worker, engine>>
  /\ UNCHANGED io

\* The caller enters command(line).
Call(line) == Enter(line, MaxCmds)

\* A first branch that leaves out "quit".
StopBranch_NoQuit == token = "stop" \/ (token = "ponderhit" /\ Signals.stopOnPonderhit)

\* A first branch that leaves out "ponderhit".
StopBranch_NoPonderhit == token = "quit" \/ token = "stop"

\* A first branch that takes every "ponderhit".
StopBranch_EveryPonderhit == token = "quit" \/ token = "stop" \/ token = "ponderhit"

\* The condition of the first branch of command().
StopBranch == token = "quit" \/ token = "stop" \/ (token = "ponderhit" /\ Signals.stopOnPonderhit)

\* The else-if chain behind the first branch: the branch of the word w is
\* entered when the first word of the line is w.  No condition of the chain
\* reads anything but that word.
Entered(w) == pc = "called" /\ ~StopBranch /\ token = w

\* sync_cout: the mutex of the output channel is free, so that the output
\* statement, which waits for it, can go on.
ChannelFree == iolock = "free"

\* Search::Signals.stop = true; Threads.main()->start_searching(true);
CmdStop ==
  /\ pc = "called"
  /\ StopBranch
  /\ Signals' = [Signals EXCEPT !.stop = TRUE]
  /\ worker' = start_searching(worker)
  /\ Return(<<>>)
  /\ UNCHANGED <<pos, SetupStates, heap, Options, Limits, engine>>

\* else if (token == "ponderhit"): the conditions of lines 168-175 have read
\* Search::Signals.stopOnPonderhit and found it not set; the assignment of
\* line 176 is a later step, and the worker may run between the two.
PonderhitTest ==
  /\ Entered("ponderhit")
  /\ pc' = "ponderhit"
  /\ UNCHANGED <<cmd, ncmds, out, pos, SetupStates, heap, Options, Signals, Limits, worker,
                 engine>>
  /\ UNCHANGED io

\* Search::Limits.ponder = 0; // Switch to normal search
CmdPonderhit ==
  /\ pc = "ponderhit"
  /\ Limits' = [Limits EXCEPT !.ponder = 0]
  /\ Return(<<>>)
  /\ UNCHANGED <<pos, SetupStates, heap, Options, Signals, worker, engine>>

\* sync_cout << "id name " << engine_info(true) << "\n" << Options << "\nuciok" << sync_endl;
\* as one step, like every output statement of Spec: the mutex is waited
\* for, the block written and the mutex released.
CmdUci ==
  /\ Entered("uci")
  /\ ChannelFree
  /\ Return(<< <<"id name " \o EngineInfo>> \o OptionsDump(Options) \o <<"uciok">> >>)
  /\ UNCHANGED <<pos, SetupStates, heap, Options, Signals, Limits, worker, engine>>

\* Search::clear(); the first statement of the ucinewgame branch.  The
\* worker may run before the second.
UcinewgameClear ==
  /\ Entered("ucinewgame")
  /\ engine' = [engine EXCEPT !.cachesClear = TRUE]
  /\ pc' = "ucinewgame"
  /\ UNCHANGED <<cmd, ncmds, out, pos, SetupStates, heap, Options, Signals, Limits, worker>>
  /\ UNCHANGED io

\* Time.availableNodes = 0; the second statement, and the return.
CmdUcinewgame ==
  /\ pc = "ucinewgame"
  /\ engine' = [engine EXCEPT !.availableNodes = 0]
  /\ Return(<<>>)
  /\ UNCHANGED <<pos, SetupStates, heap, Options, Signals, Limits, worker>>

\* sync_cout << "readyok" << sync_endl;
CmdIsready ==
  /\ Entered("isready")
  /\ ChannelFree
  /\ Return(<< <<"readyok">> >>)
  /\ UNCHANGED <<pos, SetupStates, heap, Options, Signals, Limits, worker, engine>>

\* go(pos, is)
CmdGo ==
  /\ Entered("go")
  /\ Limits' = go(pos, FirstWord.is)
  /\ worker' = start_thinking(worker, pos, SetupStates)
  /\ Signals' \in start_thinking_signals(Signals)
  /\ heap' = Collect(heap, {SetupStates})
  /\ Return(<<>>)
  /\ UNCHANGED <<pos, SetupStates, Options, engine>>

\* position(pos, is)
CmdPosition ==
  /\ Entered("position")
  /\ LET r == position(pos, Options, FirstWord.is)
         new == FreshHandle(heap, SetupStates)
     IN IF r.recognised
        THEN /\ pos' = r.pos
             /\ SetupStates' = new
             /\ heap' = InstallStack(heap, new, worker.states, r.stack)
        ELSE UNCHANGED <<pos, SetupStates, heap>>
  /\ Return(<<>>)
  /\ UNCHANGED <<Options, Signals, Limits, worker, engine>>

\* setoption(is)
CmdSetoption ==
  /\ Entered("setoption")
  /\ LET r == setoption(Options, FirstWord.is)
     IN /\ r.out # <<>> => ChannelFree
        /\ Options' = r.Options
        /\ Return(r.out)
  /\ UNCHANGED <<pos, SetupStates, heap, Signals, Limits, worker, engine>>

\* A flip that waits for the search to end.
CmdFlip_WaitsForSearch ==
  /\ Entered("flip")
  /\ ~worker.searching
  /\ pos' = PosFlip(pos)
  /\ Return(<<>>)
  /\ UNCHANGED <<SetupStates, heap, Options, Signals, Limits, worker, engine>>

\* A flip that also installs a new, empty state history.
CmdFlip_ResetsStates ==
  /\ Entered("flip")
  /\ pos' = PosFlip(pos)
  /\ SetupStates' = FreshHandle(heap, SetupStates)
  /\ heap' = InstallStack(heap, FreshHandle(heap, SetupStates), worker.states, <<>>)
  /\ Return(<<>>)
  /\ UNCHANGED <<Options, Signals, Limits, worker, engine>>

\* pos.flip()
CmdFlip ==
  /\ Entered("flip")
  /\ pos' = PosFlip(pos)
  /\ Return(<<>>)
  /\ UNCHANGED <<SetupStates, heap, Options, Signals, Limits, worker, engine>>

\* sync_cout << pos << sync_endl;
CmdD ==
  /\ Entered("d")
  /\ ChannelFree
  /\ Return(<< Render(pos) >>)
  /\ UNCHANGED <<pos, SetupStates, heap, Options, Signals, Limits, worker, engine>>

\* sync_cout << Eval::trace(pos) << sync_endl;
CmdEval ==
  /\ Entered("eval")
  /\ ChannelFree
  /\ Return(<< <<"Total Evaluation">> \o Render(pos) >>)
  /\ UNCHANGED <<pos, SetupStates, heap, Options, Signals, Limits, worker, engine>>

\* The words routed by the branches of command() after the first one.
LaterBranches ==
  {"ponderhit", "uci", "ucinewgame", "isready", "go", "position", "setoption", "flip",
   "d", "eval"}

\* A last branch that echoes the words of the line, not the line.
CmdUnknown_EchoesWords ==
  /\ pc = "called"
  /\ ~StopBranch
  /\ token \notin LaterBranches
  /\ ChannelFree
  /\ Return(<< <<"Unknown command: " \o Concat(Line(Tokens(cmd)))>> >>)
  /\ UNCHANGED <<pos, SetupStates, heap, Options, Signals, Limits, worker, engine>>

\* else sync_cout << "Unknown command: " << cmd << sync_endl;
CmdUnknown ==
  /\ pc = "called"
  /\ ~StopBranch
  /\ token \notin LaterBranches
  /\ ChannelFree
  /\ Return(<< <<"Unknown command: " \o Concat(cmd)>> >>)
  /\ UNCHANGED <<pos, SetupStates, heap, Options, Signals, Limits, worker, engine>>

\* The steps of command(): a call runs to its end in one step, but for the
\* two handlers in which the worker can get between two statements.
Dispatch ==
  \/ CmdStop
  \/ PonderhitTest
  \/ CmdPonderhit
  \/ CmdUci
  \/ UcinewgameClear
  \/ CmdUcinewgame
  \/ CmdIsready
  \/ CmdGo
  \/ CmdPosition
  \/ CmdSetoption
  \/ CmdFlip
  \/ CmdD
  \/ CmdEval
  \/ CmdUnknown

-----------------------------------------------------------------------------
(* The search on the worker thread (external collaborator) *)

\* Whether the running search has reached its end: the stop signal is up,
\* or it is neither pondering nor infinite and its limits are used up.
SearchOver == Signals.stop \/ (Limits.ponder = 0 /\ Limits.infinite = 0)

\* The worker, woken by a notification, looks again at what it has to do.
WorkerWake ==
  /\ worker.notified
  /\ worker' = [worker EXCEPT !.notified = FALSE]
  /\ UNCHANGED <<pc, cmd, ncmds, out, pos, SetupStates, heap, Options, Signals, Limits, engine>>
  /\ UNCHANGED io

\* A pondering search that used up its time waits for ponderhit or stop.
SearchArm ==
  /\ worker.searching
  /\ Limits.ponder = 1
  /\ ~Signals.stop
  /\ ~Signals.stopOnPonderhit
  /\ Signals' = [Signals EXCEPT !.stopOnPonderhit = TRUE]
  /\ UNCHANGED <<pc, cmd, ncmds, out, pos, SetupStates, heap, Options, Limits, worker, engine>>
  /\ UNCHANGED io

\* The search ends: the worker drops its handle on the state history.
SearchFinish ==
  /\ worker.searching
  /\ SearchOver
  /\ worker' = [worker EXCEPT !.searching = FALSE, !.states = NullHandle]
  /\ heap' = Collect(heap, {SetupStates})
  /\ engine' = [cachesClear |-> FALSE, availableNodes |-> 1]
  /\ UNCHANGED <<pc, cmd, ncmds, out, pos, SetupStates, Options, Signals, Limits>>
  /\ UNCHANGED io

-----------------------------------------------------------------------------
(* The system *)

Init ==
  /\ pc = "idle"
  /\ cmd = <<>>
  /\ ncmds = 0
  /\ out = <<>>
  /\ pos = EmptyPosition
  /\ SetupStates = NullHandle
  /\ heap = <<>>
  /\ Options = DefaultOptions
  /\ Signals = [stop |-> FALSE, stopOnPonderhit |-> FALSE]
  /\ Limits = ZeroLimits
  /\ worker = [searching |-> FALSE, rootPos |-> EmptyPosition, states |-> NullHandle,
               notified |-> FALSE, starts |-> 0]
  /\ engine = NewGame
  /\ iolock = "free"
  /\ chan = <<>>
  /\ pending = <<>>
  /\ wpending = <<>>

Next ==
  \/ \E line \in Lines : Call(line)
  \/ Dispatch
  \/ WorkerWake
  \/ SearchArm
  \/ SearchFinish

Spec == Init /\ [][Next]_vars

-----------------------------------------------------------------------------
(* The handlers statement by statement                                      *)
(*                                                                          *)
(* StepSpec runs the handlers that have more than one visible statement in  *)
(* steps: the two statements of the stop branch, and the output statements, *)
(* which lock the channel (sync_cout), write their operands one by one and  *)
(* unlock it (sync_endl).  The worker writes its own blocks the same way.   *)

\* The lines sent to the interpreter in StepSpec.
StepLines ==
  { Lex("go\tinfinite"),
    Line(<<"go", "ponder", "movetime", "1000">>),
    Line(<<"stop">>),
    Lex("quit\n"),
    Line(<<"ponderhit">>),
    Line(<<"uci">>),
    Line(<<"isready">>),
    Lex("\tisready\tx\r\n"),
    Line(<<"ucinewgame">>),
    Lex("position\tstartpos"),
    Line(<<"flip">>),
    Line(<<"d">>),
    Line(<<"eval">>),
    Line(<<"setoption", "name", "Hash", "value", "128">>),
    Lex("setoption name\tFoo"),
    Lex("stopp\tnow") }

\* The two statements of the stop branch in the order of the wrong handler:
\* the worker is woken before the signal is set.
StopSteps_WakeFirst == <<"wake", "raise">>

\* Search::Signals.stop = true; Threads.main()->start_searching(true);
\* the two statements of the first branch, in their order.
StopSteps == <<"raise", "wake">>

\* One statement of the stop branch.
StopDo(what) ==
  IF what = "raise"
  THEN Signals' = [Signals EXCEPT !.stop = TRUE] /\ UNCHANGED worker
  ELSE worker' = start_searching(worker) /\ UNCHANGED Signals

\* The first statement of the stop branch.
StopFirst ==
  /\ pc = "called"
  /\ StopBranch
  /\ StopDo(StopSteps[1])
  /\ pc' = "stopping"
  /\ UNCHANGED <<cmd, ncmds, out, pos, SetupStates, heap, Options, Limits, engine>>
  /\ UNCHANGED io

\* The second statement of the stop branch, and the return.
StopSecond ==
  /\ pc = "stopping"
  /\ StopDo(StopSteps[2])
  /\ pc' = "idle"
  /\ UNCHANGED <<cmd, ncmds, out, pos, SetupStates, heap, Options, Limits, engine>>
  /\ UNCHANGED io

RECURSIVE OptionsText(_, _)
\* operator<<(ostream, Options) as one text: every option on a line of its
\* own, the line break first.
OptionsText(opts, n) ==
  IF n = 0 THEN "" ELSE OptionsText(opts, n - 1) \o "\n" \o OptionsDump(opts)[n]

\* The name that setoption() reads from the line.
NameRead == ReadName(Extract(FirstWord.is, "").is, "").name

\* The operands of the output statement that the handler of the line
\* executes, in their order; none when the handler writes nothing.
Operands ==
  CASE StopBranch -> <<>>
    [] token = "uci" ->
         <<"id name ", EngineInfo, "\n", OptionsText(Options, Len(OptionOrder)), "\nuciok">>
    [] token = "isready" -> <<"readyok">>
    [] token = "setoption" ->
         IF OptionsCount(Options, NameRead) # 0 THEN <<>> ELSE <<"No such option: ", NameRead>>
    [] token = "d" -> <<Concat(Render(pos))>>
    [] token = "eval" -> <<"Total Evaluation" \o Concat(Render(pos))>>
    [] token \in LaterBranches -> <<>>
    [] OTHER -> <<"Unknown command: ", Concat(cmd)>>

\* An output statement on std::cout, which takes no lock.
WriteBegin_PlainCout ==
  /\ pc = "called"
  /\ Operands # <<>>
  /\ pc' = "writing"
  /\ pending' = Operands
  /\ UNCHANGED <<cmd, ncmds, out, pos, SetupStates, heap, Options, Signals, Limits, worker,
                 engine, iolock, chan, wpending>>

\* A sync_cout that is granted only while no search is running.
WriteBegin_WaitsForSearch ==
  /\ pc = "called"
  /\ Operands # <<>>
  /\ ChannelFree
  /\ ~worker.searching
  /\ iolock' = "control"
  /\ pc' = "writing"
  /\ pending' = Operands
  /\ UNCHANGED <<cmd, ncmds, out, pos, SetupStates, heap, Options, Signals, Limits, worker,
                 engine, chan, wpending>>

\* sync_cout: the handler waits for the mutex of the channel and takes it.
WriteBegin ==
  /\ pc = "called"
  /\ Operands # <<>>
  /\ ChannelFree
  /\ iolock' = "control"
  /\ pc' = "writing"
  /\ pending' = Operands
  /\ UNCHANGED <<cmd, ncmds, out, pos, SetupStates, heap, Options, Signals, Limits, worker,
                 engine, chan, wpending>>

\* << operand: the next operand goes to the channel.
WritePiece ==
  /\ pc = "writing"
  /\ pending # <<>>
  /\ chan' = Append(chan, [by |-> "control", text |-> Head(pending)])
  /\ pending' = Tail(pending)
  /\ UNCHANGED <<pc, cmd, ncmds, out, pos, SetupStates, heap, Options, Signals, Limits, worker,
                 engine, iolock, wpending>>

\* << sync_endl: the block is complete, the mutex is released and command()
\* returns; no handler does anything behind its output statement.
WriteEnd ==
  /\ pc = "writing"
  /\ pending = <<>>
  /\ out' = << [i \in 1..Len(chan) |-> chan[i].text] >>
  /\ chan' = <<>>
  /\ iolock' = "free"
  /\ pc' = "idle"
  /\ UNCHANGED <<cmd, ncmds, pos, SetupStates, heap, Options, Signals, Limits, worker, engine,
                 pending, wpending>>

\* The statements of the handlers that write nothing.
StepQuiet ==
  /\ Operands = <<>>
  /\ \/ PonderhitTest
     \/ CmdPonderhit
     \/ UcinewgameClear
     \/ CmdUcinewgame
     \/ CmdGo
     \/ CmdPosition
     \/ CmdSetoption
     \/ CmdFlip

\* The operands of one block of search output.
InfoOperands == <<"info depth 1", " score cp 0">>

\* The searching worker takes the mutex of the channel for a block.
InfoBegin ==
  /\ worker.searching
  /\ iolock = "free"
  /\ iolock' = "worker"
  /\ wpending' = InfoOperands
  /\ UNCHANGED <<pc, cmd, ncmds, out, pos, SetupStates, heap, Options, Signals, Limits, worker,
                 engine, chan, pending>>

\* The worker writes the next operand of its block.
InfoPiece ==
  /\ iolock = "worker"
  /\ wpending # <<>>
  /\ chan' = Append(chan, [by |-> "worker", text |-> Head(wpending)])
  /\ wpending' = Tail(wpending)
  /\ UNCHANGED <<pc, cmd, ncmds, out, pos, SetupStates, heap, Options, Signals, Limits, worker,
                 engine, iolock, pending>>

\* The worker's block is complete and the mutex released.
InfoEnd ==
  /\ iolock = "worker"
  /\ wpending = <<>>
  /\ chan' = <<>>
  /\ iolock' = "free"
  /\ UNCHANGED <<pc, cmd, ncmds, out, pos, SetupStates, heap, Options, Signals, Limits, worker,
                 engine, pending, wpending>>

\* The steps of the worker outside its output blocks.
StepWorker ==
  /\ iolock # "worker"
  /\ \/ WorkerWake
     \/ SearchArm
     \/ SearchFinish

\* The steps of the two threads when the caller sends lines of the set
\* given.
StepNextOn(lines) ==
  \/ \E line \in lines : Call(line)
  \/ StopFirst
  \/ StopSecond
  \/ WriteBegin
  \/ WritePiece
  \/ WriteEnd
  \/ StepQuiet
  \/ InfoBegin
  \/ InfoPiece
  \/ InfoEnd
  \/ StepWorker

StepNext == StepNextOn(StepLines)

StepSpec == Init /\ [][StepNext]_vars

\* The lines sent to the interpreter in LiveSpec: isready, alone and
\* between blanks, and the lines that start and stop the searches it meets.
LiveLines ==
  { Lex("go\tinfinite"),
    Line(<<"go", "ponder", "movetime", "1000">>),
    Line(<<"stop">>),
    Line(<<"isready">>),
    Lex("\tisready\tx\r\n") }

\* The steps of StepSpec with the threads scheduled: the control thread
\* runs its output statement to the end, the worker writes a block that it
\* has begun to its end and releases the mutex, and a handler that waits
\* for the mutex gets it when it is free again and again.  Nothing is
\* assumed about the search itself: it may go on for ever, and write block
\* after block.
LiveSpec ==
  /\ Init /\ [][StepNextOn(LiveLines)]_vars
  /\ SF_vars(WriteBegin)
  /\ WF_vars(WritePiece)
  /\ WF_vars(WriteEnd)
  /\ WF_vars(InfoPiece)
  /\ WF_vars(InfoEnd)

-----------------------------------------------------------------------------
(* The variant options over longer runs                                     *)
(*                                                                          *)
(* VariantSpec sends more lines than Spec, out of fewer: the lines that     *)
(* switch variant options on and off, set up a position and start a search. *)

\* The lines sent to the interpreter in VariantSpec.
VariantLines ==
  { Lex("setoption name UCI_Chess960 value true"),
    Lex("setoption name UCI_Chess960 value false"),
    Lex("setoption\tname UCI_Horde value\ttrue"),
    Lex("setoption name UCI_Horde value false"),
    Lex("position startpos"),
    Line(<<"position", "fen">> \o FenStart),
    Lex("go") }

VariantNext ==
  \/ \E line \in VariantLines : Enter(line, MaxVariantCmds)
  \/ CmdSetoption
  \/ CmdPosition
  \/ CmdGo
  \/ SearchFinish

VariantSpec == Init /\ [][VariantNext]_vars

-----------------------------------------------------------------------------
(* Properties *)

\* The words of the line of the current (or last) call of command().
Words == Tokens(cmd)

\* The n-th word of the line, or the empty word.
Word(n) == IF n <= Len(Words) THEN Words[n] ELSE ""

\* A step in which command() runs from its entry to its return.
Dispatched == pc = "called" /\ pc' = "idle"

\* A step of command(), from wherever it stands.
HandlerStep == pc # "idle" /\ pc' # pc

\* The contents of the stack behind the control thread's handle.
History == IF SetupStates = NullHandle THEN <<>> ELSE heap[SetupStates]

\* C1: a position command whose first argument is neither "startpos" nor
\* "fen" (or is missing) leaves the Position and the State History Stack as
\* they were and writes nothing.
C1_UnrecognisedPositionIsNoOp ==
  [][ (Dispatched /\ Word(1) = "position" /\ Word(2) \notin {"startpos", "fen"})
        => (pos' = pos /\ SetupStates' = SetupStates /\ heap' = heap /\ out' = <<>>) ]_vars

\* C1 happens: an unrecognised position command has returned on a Position
\* that was set up, with moves on its history.
C1_Witness ==
  /\ pc = "idle"
  /\ Words = <<"position", "moves", "e2e4">>
  /\ pos # EmptyPosition
  /\ Len(History) = 2
  /\ out = <<>>

\* The position reached from base by the first n words of ms played as moves.
RECURSIVE PosAfter(_, _, _)
PosAfter(base, ms, n) == IF n = 0 THEN base ELSE do_move(PosAfter(base, ms, n - 1), ms[n])

\* The length of the longest prefix of ms in which every word is a legal
\* move of the position reached by the words before it.
LegalPrefix(base, ms) ==
  CHOOSE n \in 0..Len(ms) :
    /\ \A i \in 1..n : Legal(PosAfter(base, ms, i - 1), ms[i])
    /\ n < Len(ms) => ~Legal(PosAfter(base, ms, n), ms[n + 1])

\* The index of the first word "moves" at or after index `from`, or one past
\* the last word.
FirstAt(w, from) ==
  IF \E i \in from..Len(Words) : Words[i] = w
  THEN CHOOSE i \in from..Len(Words) : Words[i] = w /\ \A j \in from..(i - 1) : Words[j] # w
  ELSE Len(Words) + 1

\* A position command in one of the two forms of the protocol:
\* "position startpos moves ..." or "position fen <fields> moves ...".
HasMoveList ==
  /\ Word(1) = "position"
  /\ \/ Word(2) = "startpos" /\ Word(3) = "moves"
     \/ Word(2) = "fen" /\ FirstAt("moves", 3) <= Len(Words)

\* The words after "moves".
MoveWords == SubSeq(Words, FirstAt("moves", 3) + 1, Len(Words))

\* The position that the command sets up before its moves.
BasePosition ==
  IF Word(2) = "startpos"
  THEN PosSet(StartposFen(VariantOf(Options)), VariantOf(Options))
  ELSE PosSet(Concat(Line(SubSeq(Words, 3, FirstAt("moves", 3) - 1))), VariantOf(Options))

\* C2: after "position startpos moves ..." or "position fen ... moves ...",
\* the Position is the one reached by the longest prefix of the move words
\* that are legal in turn, the State History Stack has one entry per applied
\* move in push order, and nothing behind the first illegal word is applied.
C2_ReplayIsLongestLegalPrefix ==
  (pc = "idle" /\ HasMoveList) =>
    LET n == LegalPrefix(BasePosition, MoveWords) IN
    /\ pos = PosAfter(BasePosition, MoveWords, n)
    /\ SetupStates # NullHandle
    /\ History = [i \in 1..n |-> StateInfoOf(PosAfter(BasePosition, MoveWords, i))]

\* C2 happens: "moves e2e4 e7e5 x g1f3" has applied two moves, and g1f3,
\* which was not applied, is a legal move of the position reached.
C2_Witness ==
  /\ pc = "idle"
  /\ Words = <<"position", "startpos", "moves", "e2e4", "e7e5", "x", "g1f3">>
  /\ Len(History) = 2
  /\ Legal(pos, "g1f3")
  /\ pos.board["e4"] = "P" /\ pos.board["e5"] = "p"


\* The move list of a "position startpos ..." command as the protocol
\* describes it: the words behind "moves" when the third word is "moves",
\* and the words from the third on when it is something else.
StartposMoveWords ==
  IF Word(3) = "moves" THEN SubSeq(Words, 4, Len(Words)) ELSE SubSeq(Words, 3, Len(Words))

\* C3: after "position startpos w ...", the word w is skipped only when it is
\* "moves"; any other w is the first word of the move list.
C3_StartposSkipsOnlyMoves ==
  (pc = "idle" /\ Word(1) = "position" /\ Word(2) = "startpos") =>
    LET base == PosSet(StartposFen(VariantOf(Options)), VariantOf(Options))
        n    == LegalPrefix(base, StartposMoveWords)
    IN /\ pos = PosAfter(base, StartposMoveWords, n)
       /\ Len(History) = n

\* C4: while a search holds a State History Stack, no step changes the
\* entries of that stack, and a recognised position command gives the
\* control thread a handle on another stack.
C4_HandedStackIsNotMutated ==
  [][ (worker.searching /\ worker.states # NullHandle)
        => /\ worker'.states = worker.states
              => (worker.states \in DOMAIN heap' /\ heap'[worker.states] = heap[worker.states])
           /\ (Dispatched /\ Word(1) = "position" /\ Word(2) \in {"startpos", "fen"})
              => (SetupStates' # worker.states /\ SetupStates' \in DOMAIN heap') ]_vars

\* C4 happens: the search still holds the stack that go handed to it, with
\* the moves of the earlier position command, after a later position command
\* has built another stack with other entries for the control thread.
C4_Witness ==
  /\ pc = "idle"
  /\ Word(1) = "position" /\ Word(2) = "startpos"
  /\ worker.searching
  /\ worker.states # NullHandle
  /\ SetupStates # NullHandle
  /\ SetupStates # worker.states
  /\ Len(heap[worker.states]) = 2
  /\ Len(heap[SetupStates]) = 4


\* C5: every isready is answered by the control thread with exactly one
\* block "readyok", whether a search is running or not.  The handler waits
\* for nothing but the mutex of the output channel, which the worker holds
\* only while it writes one block: with the threads scheduled as LiveSpec
\* says, readyok is written although the search never ends.
C5_IsreadyIsAnswered ==
  (pc = "called" /\ Word(1) = "isready")
    ~> (pc = "idle" /\ Word(1) = "isready" /\ out = << <<"readyok">> >>)

\* C5 happens: readyok was written while an infinite search, which no stop
\* has ended, is running, and the worker is again in the middle of a block
\* of its own.
C5_Witness ==
  /\ pc = "idle"
  /\ Word(1) = "isready"
  /\ out = << <<"readyok">> >>
  /\ worker.searching
  /\ Limits.infinite = 1
  /\ ~Signals.stop
  /\ iolock = "worker"
  /\ Len(wpending) = 1

\* C6: stop and quit, dispatched in any state, return; both raise the stop
\* signal and notify the main worker, write nothing and leave Position,
\* History Stack, options, limits and the rest of the signals and of the
\* worker alone; on a state in which the signal is up and the worker
\* notified they change nothing.
C6_StopAndQuitAreIdempotent ==
  /\ []((pc = "called" /\ Word(1) \in {"stop", "quit"}) => ENABLED Dispatch)
  /\ [][ (Dispatched /\ Word(1) \in {"stop", "quit"})
           => /\ Signals' = [Signals EXCEPT !.stop = TRUE]
              /\ worker' = [worker EXCEPT !.notified = TRUE]
              /\ out' = <<>>
              /\ UNCHANGED <<pos, SetupStates, heap, Options, Limits, engine>>
              /\ (Signals.stop /\ worker.notified) => UNCHANGED <<Signals, worker>> ]_vars

\* C6 happens: quit has returned as the second command with no search
\* active, the signal up and the worker notified.
C6_Witness ==
  /\ pc = "idle"
  /\ Word(1) = "quit"
  /\ ncmds = 2
  /\ ~worker.searching
  /\ Signals.stop
  /\ worker.notified
  /\ out = <<>>

\* C7: a ponderhit dispatched while stopOnPonderhit is set does what stop
\* does: it raises the stop signal and notifies the main worker, and the
\* limits, the ponder flag among them, stay as they are.
C7_ArmedPonderhitIsStop ==
  [][ (pc = "called" /\ HandlerStep /\ Word(1) = "ponderhit" /\ Signals.stopOnPonderhit)
        => /\ pc' = "idle"
           /\ Signals' = [Signals EXCEPT !.stop = TRUE]
           /\ worker' = [worker EXCEPT !.notified = TRUE]
           /\ Limits'.ponder = Limits.ponder
           /\ out' = <<>>
           /\ UNCHANGED <<pos, SetupStates, heap, Options, Limits, engine>> ]_vars

\* C7 happens: ponderhit has returned on an armed pondering search; the
\* stop signal is up and the ponder flag is still set.
C7_Witness ==
  /\ pc = "idle"
  /\ Word(1) = "ponderhit"
  /\ Signals.stopOnPonderhit
  /\ Signals.stop
  /\ worker.notified
  /\ worker.searching
  /\ Limits.ponder = 1

\* C8: a ponderhit that finds stopOnPonderhit not set takes the branch of
\* line 175, and that branch clears the ponder flag of the current limits
\* and does nothing else: in neither of its two steps does the handler
\* touch the signals, the worker (no notification, no new search), the
\* Position, the History Stack or the options.
C8_UnarmedPonderhitClearsPonder ==
  /\ [][ (pc = "called" /\ HandlerStep /\ Word(1) = "ponderhit" /\ ~Signals.stopOnPonderhit)
           => /\ pc' = "ponderhit"
              /\ UNCHANGED <<Limits, Signals, worker, pos, SetupStates, heap, Options, engine>> ]_vars
  /\ [][ (pc = "ponderhit" /\ HandlerStep)
           => /\ pc' = "idle"
              /\ Limits' = [Limits EXCEPT !.ponder = 0]
              /\ out' = <<>>
              /\ UNCHANGED <<Signals, worker, pos, SetupStates, heap, Options, engine>> ]_vars

\* C8 happens: ponderhit has returned on the search started by
\* "go ponder movetime 1000": the search runs on, not stopped and not
\* notified, with the ponder flag cleared.
C8_Witness ==
  /\ pc = "idle"
  /\ Word(1) = "ponderhit"
  /\ worker.searching
  /\ ~worker.notified
  /\ ~Signals.stop
  /\ ~Signals.stopOnPonderhit
  /\ Limits.movetime = 1000
  /\ Limits.ponder = 0

\* The option name of a setoption line: the words behind the second word up
\* to the first "value", with single blanks between them.
OptionName == Concat(Line(SubSeq(Words, 3, FirstAt("value", 3) - 1)))

\* The option value of a setoption line: the words behind the first "value",
\* with single blanks between them; the empty string when there are none.
OptionValue == Concat(Line(SubSeq(Words, FirstAt("value", 3) + 1, Len(Words))))

\* C9: the option names of the registry are always the names registered at
\* the start, and a setoption whose name is not registered changes no value
\* and writes the one line "No such option: <name>".
C9_UnknownOptionIsReported ==
  /\ [](DOMAIN Options = DOMAIN DefaultOptions)
  /\ [][ (Dispatched /\ Word(1) = "setoption" /\ OptionName \notin DOMAIN Options)
           => /\ Options' = Options
              /\ out' = << <<"No such option: " \o OptionName>> >> ]_vars

\* C9 happens: "setoption name Skill value 5" has been reported, and Skill
\* is no option.
C9_Witness ==
  /\ pc = "idle"
  /\ Words = <<"setoption", "name", "Skill", "value", "5">>
  /\ out = << <<"No such option: Skill">> >>
  /\ "Skill" \notin DOMAIN Options

\* C10: "setoption name <n1 .. nk> value <v1 .. vj>" with a registered name
\* sets that option to the value words joined by single blanks (the empty
\* string when there are none or "value" is missing), changes no other
\* option and writes nothing.
C10_SetoptionAssignsJoinedValue ==
  [][ (Dispatched /\ Word(1) = "setoption" /\ Word(2) = "name" /\ OptionName \in DOMAIN Options)
        => /\ Options' = [Options EXCEPT ![OptionName] = OptionValue]
           /\ out' = <<>> ]_vars

\* C10 happens: "setoption name Skill Level value 1 0", with a tab in the
\* name and one in the value, has set the option Skill Level to "1 0", and
\* after it "setoption name Hash", which has no "value", has set the option
\* Hash to the empty string.
C10_Witness ==
  /\ pc = "idle"
  /\ ncmds = 2
  /\ Words = <<"setoption", "name", "Hash">>
  /\ Options["Hash"] = ""
  /\ Options["Skill Level"] = "1 0"
  /\ out = <<>>

\* The words of a go command after "go".
GoWords == SubSeq(Words, 2, Len(Words))

\* The keywords of go that take a number, and its two flags.
ValueKeywords ==
  {"wtime", "btime", "winc", "binc", "movestogo", "depth", "nodes", "movetime", "mate"}

FlagWords == {"infinite", "ponder"}

\* ws is made of keyword/integer pairs and flags only.
PairsAndFlags(ws) ==
  \A i \in 1..Len(ws) :
    \/ ws[i] \in FlagWords
    \/ ws[i] \in ValueKeywords /\ i < Len(ws) /\ IsInt(ws[i + 1])
    \/ IsInt(ws[i]) /\ i > 1 /\ ws[i - 1] \in ValueKeywords

\* The number that ws gives for keyword kw: the one behind its last
\* occurrence, 0 when ws does not name it.
Named(ws, kw) ==
  IF \E i \in 1..(Len(ws) - 1) : ws[i] = kw
  THEN LET i == CHOOSE k \in 1..(Len(ws) - 1) :
                  ws[k] = kw /\ \A j \in (k + 1)..(Len(ws) - 1) : ws[j] # kw
       IN IntOf(ws[i + 1])
  ELSE 0

\* 1 when ws holds the flag, else 0.
Flagged(ws, flag) == IF \E i \in 1..Len(ws) : ws[i] = flag THEN 1 ELSE 0

\* The limits that the pairs and flags of ws describe, with the clock read
\* when only the word "go" had been read.
LimitsNamed(ws) ==
  [time |-> [w |-> Named(ws, "wtime"), b |-> Named(ws, "btime")],
   inc |-> [w |-> Named(ws, "winc"), b |-> Named(ws, "binc")],
   movestogo |-> Named(ws, "movestogo"), depth |-> Named(ws, "depth"),
   nodes |-> Named(ws, "nodes"), movetime |-> Named(ws, "movetime"),
   mate |-> Named(ws, "mate"),
   infinite |-> Flagged(ws, "infinite"), ponder |-> Flagged(ws, "ponder"),
   searchmoves |-> <<>>, startTime |-> 1]

\* C11: a go command made of keyword/integer pairs and the flags infinite
\* and ponder hands start_thinking limits in which exactly the named fields
\* carry the given numbers, the named flags are set, every other field is
\* zero, the search-move list is empty and the start time was read before
\* the first word after "go"; start_thinking is called once, with the
\* Position and the State History Stack of the control thread.
C11_GoBuildsNamedLimits ==
  [][ (Dispatched /\ Word(1) = "go" /\ PairsAndFlags(GoWords))
        => /\ Limits' = LimitsNamed(GoWords)
           /\ worker'.starts = worker.starts + 1
           /\ worker'.searching
           /\ worker'.rootPos = pos
           /\ worker'.states = SetupStates ]_vars

\* C11 happens: "go wtime 60000 btime 60000 winc 500 binc 700 movestogo 20"
\* has started a second search, whose limits carry the five numbers and no
\* flag, after a search that had the infinite flag.
C11_Witness ==
  /\ pc = "idle"
  /\ Words = <<"go", "wtime", "60000", "btime", "60000", "winc", "500", "binc", "700",
               "movestogo", "20">>
  /\ worker.starts = 2
  /\ worker.searching
  /\ Limits.time = [w |-> 60000, b |-> 60000]
  /\ Limits.inc = [w |-> 500, b |-> 700]
  /\ Limits.movestogo = 20
  /\ Limits.infinite = 0
  /\ Limits.depth = 0
  /\ Limits.startTime = 1

\* The word at index i of ws stands where a keyword is expected when every
\* keyword that takes a number is followed by exactly one value word.
RECURSIVE KeywordAt(_, _)
KeywordAt(ws, i) ==
  \/ i = 1
  \/ i > 1 /\ ws[i - 1] \notin ValueKeywords /\ KeywordAt(ws, i - 1)
  \/ i > 2 /\ ws[i - 2] \in ValueKeywords /\ KeywordAt(ws, i - 2)

\* The field of the limits that keyword or flag kw names.
FieldOf(limits, kw) ==
  CASE kw = "wtime" -> limits.time.w
    [] kw = "btime" -> limits.time.b
    [] kw = "winc" -> limits.inc.w
    [] kw = "binc" -> limits.inc.b
    [] kw = "movestogo" -> limits.movestogo
    [] kw = "depth" -> limits.depth
    [] kw = "nodes" -> limits.nodes
    [] kw = "movetime" -> limits.movetime
    [] kw = "mate" -> limits.mate
    [] kw = "infinite" -> limits.infinite
    [] kw = "ponder" -> limits.ponder

\* C12: in a go command without "searchmoves", every keyword that takes a
\* number consumes the one word behind it whatever that word is, words that
\* are no keyword are skipped, and the parse goes on: every flag in keyword
\* place is set, and every keyword in keyword place that is followed by a
\* number (and not named again later) has that number in its field.
C12_GoParseAlwaysContinues ==
  [][ (Dispatched /\ Word(1) = "go" /\ \A k \in 1..Len(GoWords) : GoWords[k] # "searchmoves")
        => \A i \in 1..Len(GoWords) :
             KeywordAt(GoWords, i) =>
               /\ GoWords[i] \in FlagWords => FieldOf(Limits', GoWords[i]) = 1
               /\ ( /\ GoWords[i] \in ValueKeywords
                    /\ i < Len(GoWords)
                    /\ IsInt(GoWords[i + 1])
                    /\ \A j \in (i + 1)..Len(GoWords) : GoWords[j] # GoWords[i] )
                  => FieldOf(Limits', GoWords[i]) = IntOf(GoWords[i + 1]) ]_vars

\* The index in GoWords of the first "searchmoves", or one past the last
\* word.
SearchmovesAt ==
  IF \E i \in 1..Len(GoWords) : GoWords[i] = "searchmoves"
  THEN CHOOSE i \in 1..Len(GoWords) :
         GoWords[i] = "searchmoves" /\ \A j \in 1..(i - 1) : GoWords[j] # "searchmoves"
  ELSE Len(GoWords) + 1

\* The words of a go command before its first "searchmoves".
BeforeSearchmoves == SubSeq(GoWords, 1, SearchmovesAt - 1)

\* The words of a go command behind its first "searchmoves".
AfterSearchmoves == SubSeq(GoWords, SearchmovesAt + 1, Len(GoWords))

\* C13: once a go command has read "searchmoves", every word behind it is
\* taken as an attempted search move and none of them sets a field: the
\* fields of the limits are those that the pairs and flags before
\* "searchmoves" name, and as many search moves were attempted as there are
\* words behind "searchmoves".
C13_SearchmovesIsGreedy ==
  [][ (Dispatched /\ Word(1) = "go" /\ SearchmovesAt <= Len(GoWords)
         /\ PairsAndFlags(BeforeSearchmoves))
        => /\ [Limits' EXCEPT !.searchmoves = <<>>] = LimitsNamed(BeforeSearchmoves)
           /\ Len(Limits'.searchmoves) = Len(AfterSearchmoves) ]_vars

\* C13 happens: "go depth 5 searchmoves e2e4 d2d4 depth 10" has started a
\* search with depth 5, four attempted search moves, the first of them the
\* move e2e4.
C13_Witness ==
  /\ pc = "idle"
  /\ Words = <<"go", "depth", "5", "searchmoves", "e2e4", "d2d4", "depth", "10">>
  /\ worker.searching
  /\ Limits.depth = 5
  /\ Len(Limits.searchmoves) = 4
  /\ Limits.searchmoves[1] = "e2e4"

\* C14: the words behind "searchmoves" that do not parse to a legal move of
\* the current Position are dropped: the search-move list handed to
\* start_thinking holds the legal ones only, one entry per word, in the
\* order of the words.
C14_SearchMovesAreLegalOnly ==
  [][ (Dispatched /\ Word(1) = "go" /\ SearchmovesAt <= Len(GoWords)
         /\ PairsAndFlags(BeforeSearchmoves))
        => Limits'.searchmoves = SelectSeq(AfterSearchmoves, LAMBDA w : Legal(pos, w)) ]_vars

\* The option that switches each variant flag.
FlagOption ==
  [CHESS960_VARIANT |-> "UCI_Chess960", ATOMIC_VARIANT |-> "UCI_Atomic",
   HORDE_VARIANT |-> "UCI_Horde", HOUSE_VARIANT |-> "UCI_House",
   KOTH_VARIANT |-> "UCI_KingOfTheHill", RACE_VARIANT |-> "UCI_Race",
   THREECHECK_VARIANT |-> "UCI_3Check"]

\* The flags whose option is true now.
FlagsOfTrueOptions == {f \in DOMAIN FlagOption : Options[FlagOption[f]] = "true"}

\* C15: when a recognised position command has returned, the variant flags
\* of the Position are exactly the flags whose options are true at that
\* moment, whatever flags earlier position commands installed, and a bare
\* "position startpos" has set up the horde start position exactly when the
\* horde flag is among them.
C15_VariantFlagsFollowOptions ==
  (pc = "idle" /\ Word(1) = "position" /\ Word(2) \in {"startpos", "fen"}) =>
    /\ pos.variant = FlagsOfTrueOptions
    /\ Words = <<"position", "startpos">> =>
         pos = PosSet(IF Options["UCI_Horde"] = "true" THEN StartFENHorde ELSE StartFEN,
                      FlagsOfTrueOptions)

\* C15 happens: a position command installed the flag of UCI_Chess960 and
\* go handed that Position to the worker; then UCI_Chess960 was set to
\* false and UCI_Horde to true, and "position startpos" has installed the
\* horde flag alone, with the horde start position, which has a white pawn
\* on e3: the flag of the earlier position command is gone.
C15_Witness ==
  /\ pc = "idle"
  /\ Words = <<"position", "startpos">>
  /\ worker.rootPos.variant = {"CHESS960_VARIANT"}
  /\ Options["UCI_Chess960"] = "false"
  /\ Options["UCI_Horde"] = "true"
  /\ pos.variant = {"HORDE_VARIANT"}
  /\ pos.board["e3"] = "P"

\* The first words that command() routes to a handler.
Routed ==
  {"quit", "stop", "ponderhit", "uci", "ucinewgame", "isready", "go", "position",
   "setoption", "flip", "d", "eval"}

\* C16: a line whose first word is none of the routed words, compared
\* exactly and with case, the empty line and the line of blanks among them,
\* writes the one line "Unknown command: " followed by the line as it was
\* given, changes nothing of the Position, the State History Stack, the
\* options, the limits, the signals, the worker or the engine, and leaves
\* the dispatcher ready for the next line.
C16_UnknownCommandIsEchoed ==
  [][ (Dispatched /\ Word(1) \notin Routed)
        => /\ out' = << <<"Unknown command: " \o Concat(cmd)>> >>
           /\ UNCHANGED <<pos, SetupStates, heap, Options, Limits, Signals, worker, engine>>
           /\ pc' = "idle" ]_vars

\* C16 happens: a line of a space and a tab, sent after a position with two
\* moves was set up, has been answered with "Unknown command: " and the two
\* blanks.
C16_Witness ==
  /\ pc = "idle"
  /\ cmd = <<" ", "\t">>
  /\ Words = <<>>
  /\ Len(History) = 2
  /\ out = << <<"Unknown command:  \t">> >>

\* C19: position, flip and go are dispatched without a look at the search:
\* whenever one of their lines was entered, the branch of its handler is
\* entered, and the handler, which has no condition of its own, can run,
\* whether the worker is searching or not; flip mirrors the Position and a
\* position command with a move list sets up the Position of its longest
\* legal prefix, also while a search is active; go starts a search on the
\* Position as it is, whether a position command came before it or a
\* search is running or not.
C19_MutationIgnoresSearch ==
  /\ []((pc = "called" /\ Word(1) \in {"position", "flip", "go"}) => Entered(Word(1)))
  /\ []((pc = "called" /\ Word(1) = "flip") => ENABLED CmdFlip)
  /\ [][ (pc = "called" /\ HandlerStep /\ Word(1) \in {"position", "flip", "go"})
           => pc' = "idle" ]_vars
  /\ [][ (Dispatched /\ Word(1) = "flip") => (pos' = PosFlip(pos) /\ pos' # pos) ]_vars
  /\ [][ (Dispatched /\ HasMoveList)
           => pos' = PosAfter(BasePosition, MoveWords, LegalPrefix(BasePosition, MoveWords)) ]_vars
  /\ [][ (Dispatched /\ Word(1) = "go")
           => /\ worker'.searching
              /\ worker'.rootPos = pos
              /\ worker'.starts = worker.starts + 1 ]_vars

\* C19 happens: go was sent before any position command and started a
\* search on the empty Position with no history; then, with that search
\* still active, "position startpos moves e2e4 e7e5" has changed the
\* Position of the control thread.
C19_Witness ==
  /\ pc = "idle"
  /\ Words = <<"position", "startpos", "moves", "e2e4", "e7e5">>
  /\ worker.searching
  /\ worker.starts = 1
  /\ worker.rootPos = EmptyPosition
  /\ worker.states = NullHandle
  /\ pos # worker.rootPos
  /\ Len(History) = 2

\* The routed words other than position, stop, quit and ponderhit.
KeepsHistory == {"flip", "d", "eval", "setoption", "go", "isready", "uci", "ucinewgame"}

\* C20: flip, d, eval, setoption, go, isready, uci and ucinewgame leave the
\* handle of the control thread and the stack behind it as they are, and go
\* hands the worker that very handle with the Position as it is; no step but
\* the return of a recognised position command changes the handle or the
\* stack behind it.
C20_OnlyPositionReplacesHistory ==
  /\ [][ (HandlerStep /\ Word(1) \in KeepsHistory)
           => /\ SetupStates' = SetupStates
              /\ History' = History
              /\ Word(1) = "go" => (worker'.states = SetupStates /\ worker'.rootPos = pos) ]_vars
  /\ [][ (SetupStates' # SetupStates \/ History' # History)
           => (Dispatched /\ Word(1) = "position" /\ Word(2) \in {"startpos", "fen"}) ]_vars

\* C20 happens: after "position startpos moves e2e4 e7e5" and flip, go has
\* handed the worker the mirrored Position, black to move, with the stack
\* of the control thread: two entries, the last with white to move.
C20_Witness ==
  /\ pc = "idle"
  /\ Word(1) = "go"
  /\ ncmds = 3
  /\ worker.searching
  /\ worker.states = SetupStates
  /\ Len(History) = 2
  /\ History[2].stm = WHITE
  /\ worker.rootPos = pos
  /\ pos.stm = BLACK
  /\ pos = PosFlip(PosAfter(PosSet(StartFEN, {}), <<"e2e4", "e7e5">>, 2))

\* C17: every response of the dispatcher goes to the channel as one block:
\* from its first operand to its last, the channel holds nothing of the
\* worker behind the last completed block, the worker holds no block of its
\* own open, and what command() leaves as its response is the operands of
\* its statement, all of them, in their order; likewise nothing of the
\* dispatcher gets into an open block of the worker.
C17_ResponsesAreIndivisible ==
  /\ pc = "writing" =>
       /\ wpending = <<>>
       /\ \A i \in 1..Len(chan) : chan[i].by = "control"
       /\ [i \in 1..Len(chan) |-> chan[i].text] \o pending = Operands
  /\ iolock = "worker" => \A i \in 1..Len(chan) : chan[i].by = "worker"
  /\ (pc = "idle" /\ ncmds > 0 /\ Operands # <<>>) => out = <<Operands>>

\* C17 happens: the dispatcher is in the middle of the uci block, three
\* operands written and two to come, while a search is active whose worker
\* has nothing on the channel.
C17_Witness ==
  /\ pc = "writing"
  /\ Word(1) = "uci"
  /\ Len(chan) = 3
  /\ Len(pending) = 2
  /\ chan[1] = [by |-> "control", text |-> "id name "]
  /\ worker.searching
  /\ iolock = "control"

\* The first words that always take the first branch of command().
StopWords == {"stop", "quit"}


=============================================================================
